---- MODULE Spec2Model ----
(***************************************************************************)
(* WeeNotify: the read loop of main, getResponse (frame assembly, message  *)
(* routing) and the relay wire format it consumes, at byte level.          *)
(* Bytes are naturals 0..255; a byte string is a sequence of bytes; text   *)
(* is the sequence of its ASCII codes.                                     *)
(***************************************************************************)
EXTENDS Integers, Sequences, FiniteSets, TLC

\* ------------------------------------------------------------------ bounds
MaxSends == 2        \* segments the peer sends in one behaviour
MaxFairSends == 1    \* the same, in the specification with fairness
MaxShort == 5        \* a short recv returns 1..MaxShort bytes
MaxShortReads == 1   \* short recvs in one behaviour
MaxTags == 2         \* entries of a generated tags_array
MaxMainSends == 2    \* frames the peer sends to a client followed from its start

\* ------------------------------------------------------- program constants
READ_AT_ONCE == 4096

\* ------------------------------------------------------------------- text
S_buffer_line_added == <<95, 98, 117, 102, 102, 101, 114, 95, 108, 105, 110, 101, 95, 97, 100, 100, 101, 100>>  \* "_buffer_line_added"
S_hda == <<104, 100, 97>>                          \* "hda"
S_str == <<115, 116, 114>>                         \* "str"
S_int == <<105, 110, 116>>                         \* "int"
S_arr == <<97, 114, 114>>                          \* "arr"
S_message == <<109, 101, 115, 115, 97, 103, 101>>  \* "message"
S_tags_array == <<116, 97, 103, 115, 95, 97, 114, 114, 97, 121>>  \* "tags_array"
S_highlight == <<104, 105, 103, 104, 108, 105, 103, 104, 116>>    \* "highlight"
S_nick_ == <<110, 105, 99, 107, 95>>               \* "nick_"
S_notify_ == <<110, 111, 116, 105, 102, 121, 95>>  \* "notify_"
S_private == <<112, 114, 105, 118, 97, 116, 101>>  \* "private"
S_path == <<108, 105, 110, 101, 95, 100, 97, 116, 97>>            \* "line_data"
S_keys == <<109, 101, 115, 115, 97, 103, 101, 58, 115, 116, 114, 44, 116, 97, 103, 115, 95, 97, 114, 114, 97, 121, 58, 97, 114, 114, 44, 104, 105, 103, 104, 108, 105, 103, 104, 116, 58, 105, 110, 116>>  \* "message:str,tags_array:arr,highlight:int"
T_nick_al == <<110, 105, 99, 107, 95, 97, 108>>    \* "nick_al"
T_nick_bo == <<110, 105, 99, 107, 95, 98, 111>>    \* "nick_bo"
T_notify_private == <<110, 111, 116, 105, 102, 121, 95, 112, 114, 105, 118, 97, 116, 101>>  \* "notify_private"
T_notify_message == <<110, 111, 116, 105, 102, 121, 95, 109, 101, 115, 115, 97, 103, 101>>  \* "notify_message"
S_nicklist == <<95, 110, 105, 99, 107, 108, 105, 115, 116>>  \* "_nicklist"
S_inf == <<105, 110, 102>>                         \* "inf"
M_hi == <<104, 105>>                               \* "hi"
M_yo == <<121, 111>>                               \* "yo"
C_init == <<105, 110, 105, 116, 32, 99, 111, 109, 112, 114, 101, 115, 115, 105, 111, 110, 61, 111, 102, 102, 10>>  \* "init compression=off\n"
C_sync == <<115, 121, 110, 99, 32, 42, 10>>  \* "sync *\n"
V_host == <<104>>                                    \* "h"
V_port == <<49>>                                     \* "1"
V_highlight_action == <<126, 47, 104>>               \* "~/h"
V_privmsg_action == <<47, 112>>                      \* "/p"
Home == <<47, 114>>                                  \* "/r"

\* ------------------------------------------------------- sequence helpers
Take(s, n) == SubSeq(s, 1, IF n < Len(s) THEN n ELSE Len(s))
Drop(s, n) == SubSeq(s, n + 1, Len(s))
Min(a, b) == IF a < b THEN a ELSE b

\* F applied to the value of x, x being computed once.
With(x, F(_)) == CHOOSE y \in {F(v) : v \in {x}} : TRUE

RECURSIVE Concat(_)
Concat(ss) == IF ss = <<>> THEN <<>> ELSE Head(ss) \o Concat(Tail(ss))

\* The position of the first sep in s, 0 when there is none.
RECURSIVE IndexFrom(_, _, _)
IndexFrom(s, sep, i) ==
    IF i > Len(s) THEN 0
    ELSE IF s[i] = sep THEN i ELSE IndexFrom(s, sep, i + 1)

\* str.split(sep)
RECURSIVE Split(_, _)
Split(s, sep) ==
    With(IndexFrom(s, sep, 1), LAMBDA i :
        IF i = 0 THEN <<s>>
        ELSE <<SubSeq(s, 1, i - 1)>> \o Split(Drop(s, i), sep))

\* ---------------------------------------------------- packetRead (decoder)
\* Every reader returns [ok, val, rest]: the value and the bytes after it;
\* ok = FALSE is the reader raising on bytes it cannot consume.
Fail == [ok |-> FALSE, val |-> 0, rest |-> <<>>]
Got(val, rest) == [ok |-> TRUE, val |-> val, rest |-> rest]

\* 4 bytes, big-endian, signed two's complement.
Int32(b) ==
    (IF b[1] >= 128 THEN b[1] - 256 ELSE b[1]) * 16777216
        + b[2] * 65536 + b[3] * 256 + b[4]

read_int(b) ==
    IF Len(b) < 4 THEN Fail ELSE Got(Int32(b), Drop(b, 4))

\* UTF-8 decoding of ASCII bytes is the text itself; a byte >= 128 that is not
\* part of a multi-byte sequence cannot be decoded.
Utf8Ok(s) == \A i \in 1..Len(s) : s[i] < 128

\* Length prefix, then that many bytes; length -1 is the null string.
read_str(b) ==
    With(read_int(b), LAMBDA n :
        IF ~n.ok THEN Fail
        ELSE IF n.val = -1 THEN Got(<<>>, n.rest)
        ELSE IF n.val < 0 \/ n.val > Len(n.rest) THEN Fail
        ELSE IF ~Utf8Ok(Take(n.rest, n.val)) THEN Fail
        ELSE Got(Take(n.rest, n.val), Drop(n.rest, n.val)))

\* 3 raw bytes.
read_typ(b) ==
    IF Len(b) < 3 THEN Fail ELSE Got(Take(b, 3), Drop(b, 3))

\* One value of a primitive type.
read_prim(typ, b) ==
    IF typ = S_str THEN read_str(b)
    ELSE IF typ = S_int THEN read_int(b)
    ELSE Fail

\* count elements of a primitive type, one after the other.
RECURSIVE read_items(_, _, _, _)
read_items(typ, count, b, acc) ==
    IF count <= 0 THEN Got(acc, b)
    ELSE With(read_prim(typ, b), LAMBDA r :
            IF ~r.ok THEN Fail
            ELSE read_items(typ, count - 1, r.rest, Append(acc, r.val)))

\* arr: element type, count, elements.
read_arr(b) ==
    With(read_typ(b), LAMBDA t :
        IF ~t.ok THEN Fail
        ELSE With(read_int(t.rest), LAMBDA n :
            IF ~n.ok THEN Fail
            ELSE With(read_items(t.val, n.val, n.rest, <<>>), LAMBDA r :
                IF ~r.ok THEN Fail
                ELSE Got([et |-> t.val, items |-> r.val], r.rest))))

\* One value of the declared type, tagged with that type.
read_value(typ, b) ==
    With(IF typ = S_arr THEN read_arr(b) ELSE read_prim(typ, b), LAMBDA r :
        IF ~r.ok THEN Fail ELSE Got([t |-> typ, v |-> r.val], r.rest))

\* "name:type,name:type" as a sequence of <<name, type>>; <<>> entries mark a
\* part without ':'.
ParseKeys(keys) ==
    With(Split(keys, 44), LAMBDA parts :
        [i \in 1..Len(parts) |->
            With(IndexFrom(parts[i], 58, 1), LAMBDA c :
                IF c = 0 THEN <<>>
                ELSE <<SubSeq(parts[i], 1, c - 1), Drop(parts[i], c)>>)])

\* One record: one value per declared key, in header order; a record is the
\* sequence of its [name, val] fields.
RECURSIVE read_fields(_, _, _)
read_fields(keys, b, acc) ==
    IF keys = <<>> THEN Got(acc, b)
    ELSE With(read_value(Head(keys)[2], b), LAMBDA r :
            IF ~r.ok THEN Fail
            ELSE read_fields(Tail(keys), r.rest,
                             Append(acc, [name |-> Head(keys)[1], val |-> r.val])))

RECURSIVE read_records(_, _, _, _)
read_records(keys, count, b, acc) ==
    IF count <= 0 THEN Got(acc, b)
    ELSE With(read_fields(keys, b, <<>>), LAMBDA r :
            IF ~r.ok THEN Fail
            ELSE read_records(keys, count - 1, r.rest, Append(acc, r.val)))

\* hdata: path, keys, count, then count records.
read_hda(b) ==
    With(read_str(b), LAMBDA p :
        IF ~p.ok THEN Fail
        ELSE With(read_str(p.rest), LAMBDA k :
            IF ~k.ok THEN Fail
            ELSE With(read_int(k.rest), LAMBDA n :
                IF ~n.ok THEN Fail
                ELSE With(ParseKeys(k.val), LAMBDA keys :
                    IF \E i \in 1..Len(keys) : keys[i] = <<>> THEN Fail
                    ELSE read_records(keys, n.val, n.rest, <<>>)))))

\* ------------------------------------------------ the relay's wire encoding
Enc32(n) ==
    LET hi == IF n < 0 THEN (n \div 16777216) + 256 ELSE n \div 16777216
    IN  <<hi, (n \div 65536) % 256, (n \div 256) % 256, n % 256>>

EncStr(s) == Enc32(Len(s)) \o s

EncTags(tags) ==
    S_str \o Enc32(Len(tags)) \o Concat([i \in 1..Len(tags) |-> EncStr(tags[i])])

\* A record of the peer is [message, fill, tags_array, highlight]; its message
\* text is message followed by fill times the letter x.
Text(r) == r.message \o [i \in 1..r.fill |-> 120]

EncRecord(r) == EncStr(Text(r)) \o EncTags(r.tags_array) \o Enc32(r.highlight)

EncHda(recs) ==
    EncStr(S_path) \o EncStr(S_keys) \o Enc32(Len(recs))
        \o Concat([i \in 1..Len(recs) |-> EncRecord(recs[i])])

\* [4-byte length][compression flag][body]; the length counts the 5 header bytes.
EncFrame(flag, body) == Enc32(Len(body) + 5) \o <<flag>> \o body

\* ------------------------------------------------------- message routing
Highlight(msg, nick) == [kind |-> "highlight", msg |-> msg, nick |-> nick]
PrivMsg(msg, nick) == [kind |-> "privmsg", msg |-> msg, nick |-> nick]

\* str.startswith
StartsWith(s, p) == Len(s) >= Len(p) /\ SubSeq(s, 1, Len(p)) = p

\* hda[name]: the position of the field, 0 for a KeyError.
FieldIndex(hda, name) ==
    IF \E i \in 1..Len(hda) : hda[i].name = name
    THEN CHOOSE i \in 1..Len(hda) :
            /\ hda[i].name = name
            /\ \A j \in (i + 1)..Len(hda) : hda[j].name # name
    ELSE 0

HasFields(hda) ==
    /\ FieldIndex(hda, S_message) # 0
    /\ FieldIndex(hda, S_tags_array) # 0
    /\ FieldIndex(hda, S_highlight) # 0

Field(hda, name) == hda[FieldIndex(hda, name)].val

\* The values the loop body can work on: tags it can iterate and call
\* startswith on, a highlight it can compare with 0.
Routable(hda) ==
    /\ HasFields(hda)
    /\ \/ Field(hda, S_tags_array).t = S_str
       \/ /\ Field(hda, S_tags_array).t = S_arr
          /\ \/ Field(hda, S_tags_array).v.et = S_str
             \/ Field(hda, S_tags_array).v.items = <<>>
    /\ Field(hda, S_highlight).t = S_int

\* Iterating a str gives its characters, iterating an arr its items.
TagsOf(val) ==
    IF val.t = S_arr THEN val.v.items
    ELSE [i \in 1..Len(val.v) |-> <<val.v[i]>>]

\* The decoded record as [message, tags_array, highlight].
Plain(hda) ==
    [message |-> Field(hda, S_message).v,
     tags_array |-> TagsOf(Field(hda, S_tags_array)),
     highlight |-> Field(hda, S_highlight).v]

\* for tag in tags: if tag.startswith('nick_'): nick = tag[5:]
RECURSIVE NickLoop(_, _)
NickLoop(tags, nick) ==
    IF tags = <<>> THEN nick
    ELSE NickLoop(Tail(tags),
                  IF StartsWith(Head(tags), S_nick_) THEN Drop(Head(tags), 5) ELSE nick)

\* NotifyLoop without its break.
RECURSIVE NotifyLoop_nobreak(_, _, _)
NotifyLoop_nobreak(tags, msg, nick) ==
    IF tags = <<>> THEN <<>>
    ELSE (IF StartsWith(Head(tags), S_notify_) /\ Drop(Head(tags), 7) = S_private
          THEN <<PrivMsg(msg, nick)>> ELSE <<>>)
            \o NotifyLoop_nobreak(Tail(tags), msg, nick)

\* for tag in tags: if tag.startswith('notify_'): if tag[7:] == 'private':
\*     gotPrivMsg(msg, nick, conf); break
RECURSIVE NotifyLoop(_, _, _)
NotifyLoop(tags, msg, nick) ==
    IF tags = <<>> THEN <<>>
    ELSE IF StartsWith(Head(tags), S_notify_) /\ Drop(Head(tags), 7) = S_private
         THEN <<PrivMsg(msg, nick)>>
         ELSE NotifyLoop(Tail(tags), msg, nick)

\* RouteRecord without the continue after gotHighlight.
RouteRecord_fallthrough(r) ==
    (IF r.highlight > 0
     THEN <<Highlight(r.message, NickLoop(r.tags_array, <<>>))>> ELSE <<>>)
        \o NotifyLoop(r.tags_array, r.message, NickLoop(r.tags_array, <<>>))

\* RouteRecord testing highlight >= 0.
RouteRecord_ge(r) ==
    IF r.highlight >= 0
    THEN <<Highlight(r.message, NickLoop(r.tags_array, <<>>))>>
    ELSE <<>>

\* The body of `for hda in hdaData` for one record: the events it dispatches.
RouteRecord(r) ==
    LET nick == NickLoop(r.tags_array, <<>>)
    IN  IF r.highlight > 0
        THEN <<Highlight(r.message, nick)>>
        ELSE NotifyLoop(r.tags_array, r.message, nick)

\* RouteAll taking the records last to first.
RECURSIVE RouteAll_reversed(_, _)
RouteAll_reversed(hdaData, acc) ==
    IF hdaData = <<>> THEN [raised |-> FALSE, routed |-> acc]
    ELSE IF ~Routable(Head(hdaData)) THEN [raised |-> TRUE, routed |-> acc]
    ELSE RouteAll_reversed(Tail(hdaData),
                           <<[rec |-> Plain(Head(hdaData)),
                              evs |-> RouteRecord(Plain(Head(hdaData)))]>> \o acc)

\* The for loop: the records routed before the first one that raises, each
\* with its events, and whether one raised.
RECURSIVE RouteAll(_, _)
RouteAll(hdaData, acc) ==
    IF hdaData = <<>> THEN [raised |-> FALSE, routed |-> acc]
    ELSE IF ~Routable(Head(hdaData)) THEN [raised |-> TRUE, routed |-> acc]
    ELSE RouteAll(Tail(hdaData),
                  Append(acc, [rec |-> Plain(Head(hdaData)),
                               evs |-> RouteRecord(Plain(Head(hdaData)))]))

EventsOf(routed) == Concat([i \in 1..Len(routed) |-> routed[i].evs])

\* getResponse from `body = sockBytes[5:]` on: what it does with a buffer it
\* takes for complete. ret is "continue" (return True) or "raise".
Done(ret, how, routed) ==
    [ret |-> ret, how |-> how, routed |-> routed, buf |-> <<>>, mLen |-> 0]

\* Process without the test of the identifier.
Process_anyident(sockBytes) ==
    With(read_str(Drop(sockBytes, 5)), LAMBDA ident :
        IF ~ident.ok THEN Done("raise", "ident", <<>>)
        ELSE With(read_typ(ident.rest), LAMBDA typ :
            IF ~typ.ok THEN Done("raise", "typ", <<>>)
            ELSE IF typ.val # S_hda THEN Done("continue", "nothda", <<>>)
            ELSE With(read_hda(typ.rest), LAMBDA hda :
                IF ~hda.ok THEN Done("raise", "hda", <<>>)
                ELSE With(RouteAll(hda.val, <<>>), LAMBDA all :
                    IF all.raised THEN Done("raise", "record", all.routed)
                    ELSE Done("continue", "routed", all.routed)))))

Process(sockBytes) ==
    With(read_str(Drop(sockBytes, 5)), LAMBDA ident :
        IF ~ident.ok THEN Done("raise", "ident", <<>>)
        ELSE IF ident.val # S_buffer_line_added THEN Done("continue", "other", <<>>)
        ELSE With(read_typ(ident.rest), LAMBDA typ :
            IF ~typ.ok THEN Done("raise", "typ", <<>>)
            ELSE IF typ.val # S_hda THEN Done("continue", "nothda", <<>>)
            ELSE With(read_hda(typ.rest), LAMBDA hda :
                IF ~hda.ok THEN Done("raise", "hda", <<>>)
                ELSE With(RouteAll(hda.val, <<>>), LAMBDA all :
                    IF all.raised THEN Done("raise", "record", all.routed)
                    ELSE Done("continue", "routed", all.routed)))))

\* -------------------------------------------------- notification dispatch
\* A value of conf is a text or None; None and the empty text are false.
None == <<-1>>
Truthy(v) == v # None /\ v # <<>>

\* os.path.expanduser: a leading "~" alone or before "/" becomes the home
\* directory; every other path is left as it is.
expandPaths(path) ==
    IF path # <<>> /\ path[1] = 126 /\ (Len(path) = 1 \/ path[2] = 47)
    THEN Home \o Drop(path, 1)
    ELSE path

\* What a call leaves outside the program: "ran" is subprocess.call having
\* returned, "could not execute" and "unspecified" are the lines of
\* logging.error; raised is an exception leaving the call.
Effect(kind, argv) == [kind |-> kind, argv |-> argv]
Quiet == [effects |-> <<>>, raised |-> FALSE]

\* safeCall without its try.
safeCall_notry(callArray, fails) ==
    IF Len(callArray) = 0
    THEN [effects |-> <<Effect("unspecified", <<>>)>>, raised |-> FALSE]
    ELSE IF fails THEN [effects |-> <<>>, raised |-> TRUE]
    ELSE [effects |-> <<Effect("ran", callArray)>>, raised |-> FALSE]

\* fails: subprocess.call raises (the program cannot be executed).
safeCall(callArray, fails) ==
    IF Len(callArray) = 0
    THEN [effects |-> <<Effect("unspecified", <<>>)>>, raised |-> FALSE]
    ELSE IF fails
    THEN [effects |-> <<Effect("could not execute", callArray)>>, raised |-> FALSE]
    ELSE [effects |-> <<Effect("ran", callArray)>>, raised |-> FALSE]

\* gotHighlight testing only that the key is in conf.
gotHighlight_keyonly(message, nick, conf, fails) ==
    IF "highlight-action" \notin DOMAIN conf THEN Quiet
    ELSE safeCall(<<expandPaths(conf["highlight-action"]), message, nick>>, fails)

gotHighlight(message, nick, conf, fails) ==
    IF "highlight-action" \notin DOMAIN conf \/ ~Truthy(conf["highlight-action"])
    THEN Quiet
    ELSE safeCall(<<expandPaths(conf["highlight-action"]), message, nick>>, fails)

gotPrivMsg(message, nick, conf, fails) ==
    IF "privmsg-action" \notin DOMAIN conf \/ ~Truthy(conf["privmsg-action"])
    THEN Quiet
    ELSE safeCall(<<expandPaths(conf["privmsg-action"]), message, nick>>, fails)

\* The calls of gotHighlight and gotPrivMsg of one getResponse, in order, up
\* to the first that raises: their effects, and how many were made.
RECURSIVE Dispatch(_, _, _, _)
Dispatch(evs, conf, fails, acc) ==
    IF evs = <<>> THEN acc
    ELSE With(IF Head(evs).kind = "highlight"
              THEN gotHighlight(Head(evs).msg, Head(evs).nick, conf, fails[acc.n + 1])
              ELSE gotPrivMsg(Head(evs).msg, Head(evs).nick, conf, fails[acc.n + 1]),
              LAMBDA c :
                IF c.raised
                THEN [effects |-> acc.effects \o c.effects, n |-> acc.n + 1, raised |-> TRUE]
                ELSE Dispatch(Tail(evs), conf, fails,
                              [effects |-> acc.effects \o c.effects, n |-> acc.n + 1,
                               raised |-> FALSE]))

NoDispatch == [effects |-> <<>>, n |-> 0, raised |-> FALSE]

\* ---------------------------------------------------------------- startup
ConfKeys == {"server", "port", "highlight-action", "privmsg-action"}

\* dict.update
Update(d, e) ==
    [k \in DOMAIN d \cup DOMAIN e |-> IF k \in DOMAIN e THEN e[k] ELSE d[k]]

\* The test of main with `and` between its two halves.
Missing_both(conf) ==
    /\ ("server" \notin DOMAIN conf \/ ~Truthy(conf["server"]))
    /\ ("port" \notin DOMAIN conf \/ ~Truthy(conf["port"]))

\* `not 'server' in conf or not conf['server'] or not 'port' in conf or
\* not conf['port']`
Missing(conf) ==
    \/ "server" \notin DOMAIN conf \/ ~Truthy(conf["server"])
    \/ "port" \notin DOMAIN conf \/ ~Truthy(conf["port"])

\* The two sendall of main, the other way round.
Commands_swapped == <<C_sync, C_init>>

\* sock.sendall(b'init compression=off\n'); sock.sendall(b'sync *\n')
Commands == <<C_init, C_sync>>

\* -------------------------------------------------------- frame assembly
\* A closed connection taken for an open one.
IsClosed_never(chunk) == FALSE

\* `if not sockBytes`
IsClosed(chunk) == chunk = <<>>

\* `len(sockBytes) < 5`
TooShort(chunk) == Len(chunk) < 5

\* The compression flag left unread.
Compressed_ignored(chunk) == FALSE

\* `sockBytes[4] != 0`
Compressed(chunk) == chunk[5] # 0

\* The loop left one byte early.
NeedMore_early(buf, mlen) == Len(buf) + 1 < mlen

\* `while(len(sockBytes) < mLen)`
NeedMore(buf, mlen) == Len(buf) < mlen

\* The loop without its test of the last chunk.
LastShort_never(lastPacket) == FALSE

\* `if(len(lastPacket) < READ_AT_ONCE)`
LastShort(lastPacket) == Len(lastPacket) < READ_AT_ONCE

\* What a call does without receiving again: ret is "stop" (return False),
\* "continue" (return True), "raise", or "block" (the call waits in recv).
Return(ret, how) == Done(ret, how, <<>>)

\* The while loop from its test up to the next recv, then the routing.
Loop(buf, lastPacket, mlen) ==
    IF NeedMore(buf, mlen)
    THEN IF LastShort(lastPacket)
         THEN Return("continue", "incomplete")
         ELSE [ret |-> "block", how |-> "more", routed |-> <<>>, buf |-> buf, mLen |-> mlen]
    ELSE Process(buf)

\* getResponse after its first recv returned chunk.
First(chunk) ==
    IF IsClosed(chunk) THEN Return("stop", "closed")
    ELSE IF TooShort(chunk) THEN Return("continue", "short")
    ELSE IF Compressed(chunk) THEN Return("continue", "compressed")
    ELSE Loop(chunk, chunk, read_int(chunk).val)

\* getResponse after the recv of its loop returned chunk.
More(buf, chunk, mlen) == Loop(buf \o chunk, chunk, mlen)

\* ------------------------------------------------------------- the peer
\* What the peer sends in one piece: a frame with the given compression flag,
\* identifier, type tag and records, whole (cut = 0) or only its first cut
\* bytes.
Bytes(m) ==
    LET f == EncFrame(m.flag, EncStr(m.ident) \o m.typ \o EncHda(m.recs))
    IN  IF m.cut = 0 THEN f ELSE Take(f, m.cut)

WellFormed(m) == m.cut = 0 /\ m.flag = 0

Rec(msg, tags, hl) == [message |-> msg, fill |-> 0, tags_array |-> tags, highlight |-> hl]
Msg(flag, ident, recs) ==
    [cut |-> 0, flag |-> flag, ident |-> ident, typ |-> S_hda, recs |-> recs]
MsgAs(ident, typ, recs) == [Msg(0, ident, recs) EXCEPT !.typ = typ]
CutAt(m, n) == [m EXCEPT !.cut = n]

FrameA == Msg(0, S_buffer_line_added, <<Rec(M_hi, <<T_nick_al, T_notify_private>>, 1)>>)
FrameB == Msg(0, S_buffer_line_added, <<Rec(M_yo, <<T_nick_bo, T_notify_private>>, 0)>>)
FrameZ == Msg(1, S_buffer_line_added, <<Rec(M_hi, <<T_nick_al>>, 1)>>)
\* A frame of more than one chunk, longer than one chunk and a small frame.
FrameBig ==
    Msg(0, S_buffer_line_added,
        <<[Rec(M_hi, <<T_notify_private>>, 0)
            EXCEPT !.fill = READ_AT_ONCE + Len(Bytes(FrameA))]>>)
\* A frame without its last byte, and a frame of which exactly one chunk is sent.
PartB == CutAt(FrameB, Len(Bytes(FrameB)) - 1)
PartBig == CutAt(FrameBig, READ_AT_ONCE)

FramingMenu == {FrameA, FrameZ, FrameBig, PartB, PartBig}

Tags == {T_nick_al, T_nick_bo, T_notify_private, T_notify_message}
TagSeqs(n) == UNION {[1..k -> Tags] : k \in 0..n}
HighlightVals == {-1, 0, 1, 2}
Records(msg, n) == {Rec(msg, t, h) : t \in TagSeqs(n), h \in HighlightVals}
RouteMenu ==
    {Msg(0, S_buffer_line_added, <<r>>) : r \in Records(M_hi, MaxTags)}
        \cup {Msg(0, S_buffer_line_added, <<r, q>>) :
                r \in Records(M_hi, 1), q \in Records(M_yo, 1)}

\* Frames of two records, and of one.
FrameHP ==
    Msg(0, S_buffer_line_added,
        <<Rec(M_hi, <<T_nick_al>>, 1), Rec(M_yo, <<T_nick_bo, T_notify_private>>, 0)>>)
FramePH ==
    Msg(0, S_buffer_line_added,
        <<Rec(M_yo, <<T_nick_bo, T_notify_private>>, 0), Rec(M_hi, <<T_nick_al>>, 1)>>)
MainMenu == {FrameHP, FramePH, FrameA}

\* Frames that are not buffer lines: another identifier, or another type tag
\* than hda after the identifier, before the same payloads.
NotBufferLine(m) == m.ident # S_buffer_line_added \/ m.typ # S_hda
OtherMenu ==
    {MsgAs(id, ty, <<r>>) :
        id \in {S_buffer_line_added, S_nicklist}, ty \in {S_hda, S_str, S_inf},
        r \in Records(M_hi, 1)} \ RouteMenu

\* The events of a frame returned whole by a single recv.
Expected(m) == EventsOf(Process(Bytes(m)).routed)

\* ---------------------------------------------------------------- state
VARIABLES
    wire,        \* the segments sent and not yet received, oldest first
    peerClosed,  \* the peer has closed the connection
    sent,        \* what the peer has sent, in order
    pc,          \* "first": main calls getResponse, which waits in its first recv;
                 \* "more": getResponse waits in the recv of its loop;
                 \* "stopped": getResponse returned False, the loop of main ended;
                 \* "crashed": an exception left getResponse and main
    sockBytes,   \* the buffer of the call in progress
    mLen,        \* its declared length
    events,      \* the calls of gotHighlight and gotPrivMsg, in order
    last,        \* the latest step of getResponse: what it read and did
    prev,        \* what the two steps of getResponse before the latest did
    shortReads,  \* the recvs that returned less than what one send delivered
    merged,      \* some recv returned bytes of more than one send
    conf,        \* the dictionary conf of main
    sock,        \* "none", "created" (socket.socket()) or "connected"
    out,         \* what main has sent on the socket, one entry per sendall
    effects,     \* the programs run and the errors logged by safeCall, in order
    exitStatus   \* the exit status of the process, -1 while it runs

\* pc is also "start" (main before readCommandLine), "check" (before the test
\* of server and port), "connect", "init" and "sync" (before the socket is
\* connected and before each sendall), and "exited" (after exit(1)).
vars ==
    <<wire, peerClosed, sent, pc, sockBytes, mLen, events, last, prev, shortReads,
      merged, conf, sock, out, effects, exitStatus>>

framing == <<sockBytes, mLen, events, last, prev, shortReads, merged, effects>>

NoCall ==
    [ret |-> "none", how |-> "none", nreads |-> 0, firstlen |-> 0, lastlen |-> 0,
     buflen |-> 0, head |-> <<>>, routed |-> <<>>, fails |-> <<>>, effects |-> <<>>]

\* A configuration with everything set.
FullConf ==
    [k \in ConfKeys |->
        CASE k = "server" -> V_host
          [] k = "port" -> V_port
          [] k = "highlight-action" -> V_highlight_action
          [] OTHER -> V_privmsg_action]

\* What the command line gives for a key: None without the option, or the
\* text given; what the configuration file gives for the keys it has.
CmdLines == {c \in [ConfKeys -> {None, <<>>, V_host, V_port, V_highlight_action, V_privmsg_action}] :
                \A k \in ConfKeys : c[k] \in {None, <<>>, FullConf[k]}}
ConfFiles ==
    UNION {{f \in [K -> {<<>>, V_host, V_port, V_highlight_action, V_privmsg_action}] :
                \A k \in K : f[k] \in {<<>>, FullConf[k]}} : K \in SUBSET ConfKeys}

\* Nothing received yet.
NoFrame ==
    /\ wire = <<>>
    /\ peerClosed = FALSE
    /\ sent = <<>>
    /\ sockBytes = <<>>
    /\ mLen = 0
    /\ events = <<>>
    /\ last = NoCall
    /\ prev = <<>>
    /\ shortReads = 0
    /\ merged = FALSE
    /\ effects = <<>>
    /\ exitStatus = -1

\* main with everything configured, before its first getResponse.
Init ==
    /\ NoFrame
    /\ pc = "first"
    /\ conf = FullConf
    /\ sock = "connected"
    /\ out = Commands

\* The process before main.
InitMain ==
    /\ NoFrame
    /\ pc = "start"
    /\ conf = <<>>
    /\ sock = "none"
    /\ out = <<>>

\* ----------------------------------------------------------------- recv
\* sock.recv(READ_AT_ONCE) returns at most READ_AT_ONCE of the bytes that have
\* arrived: what one send delivered, ...
WholeLens == IF wire = <<>> THEN {} ELSE {Min(Len(wire[1]), READ_AT_ONCE)}

\* ... or that and the next send's bytes, ...
MergeLens ==
    IF Len(wire) < 2 THEN {}
    ELSE {Min(Len(wire[1]) + Len(wire[2]), READ_AT_ONCE)}

\* ... or only its first few bytes.
ShortLens ==
    IF wire = <<>> \/ shortReads >= MaxShortReads THEN {}
    ELSE {k \in 1..MaxShort : k < Len(wire[1])}

AnyLens == WholeLens \cup MergeLens \cup ShortLens

RECURSIVE DropWire(_, _)
DropWire(w, n) ==
    IF n = 0 \/ w = <<>> THEN w
    ELSE IF n >= Len(Head(w)) THEN DropWire(Tail(w), n - Len(Head(w)))
    ELSE <<Drop(Head(w), n)>> \o Tail(w)

\* recv returns the first n bytes in flight; on a closed and drained
\* connection (n = 0) it returns no byte; otherwise it blocks.
Recv(n) ==
    /\ IF wire = <<>> THEN n = 0 /\ peerClosed ELSE n > 0
    /\ wire' = DropWire(wire, n)
    /\ shortReads' = IF wire # <<>> /\ n < Min(Len(wire[1]), READ_AT_ONCE)
                     THEN shortReads + 1 ELSE shortReads
    /\ merged' = (merged \/ (wire # <<>> /\ n > Len(wire[1])))

Chunk(n) == Take(Concat(wire), n)

\* The state a step of getResponse leaves; outs are the ways subprocess.call
\* can end: FALSE it returns, TRUE it raises.
Outcome(step, chunk, buf, nreads, firstlen, outs) ==
    /\ \E fails \in [1..Len(EventsOf(step.routed)) -> outs] :
        \E d \in {Dispatch(EventsOf(step.routed), conf, fails, NoDispatch)} :
            \E ret \in {IF d.raised THEN "raise" ELSE step.ret} :
                /\ pc' = CASE ret = "stop" -> "stopped"
                           [] ret = "raise" -> "crashed"
                           [] ret = "block" -> "more"
                           [] OTHER -> "first"
                /\ exitStatus' = CASE ret = "stop" -> 0
                                   [] ret = "raise" -> 1
                                   [] OTHER -> exitStatus
                /\ events' = events \o Take(EventsOf(step.routed), d.n)
                /\ effects' = effects \o d.effects
                /\ last' = [ret |-> ret, how |-> step.how, nreads |-> nreads,
                            firstlen |-> firstlen, lastlen |-> Len(chunk),
                            buflen |-> Len(buf), head |-> Take(buf, 5),
                            routed |-> step.routed, fails |-> fails,
                            effects |-> d.effects]
    /\ sockBytes' = step.buf
    /\ mLen' = step.mLen
    /\ prev' = IF last.how = "none" THEN <<>>
               ELSE IF Len(prev) < 2 THEN Append(prev, last.how)
               ELSE <<prev[2], last.how>>

\* main calls getResponse: the first recv and everything up to the return or
\* to the next recv.
GetResponseFirst(lens, outs) ==
    /\ pc = "first"
    /\ \E n \in lens \cup {0} :
        /\ Recv(n)
        /\ \E chunk \in {Chunk(n)} :
            \E step \in {First(chunk)} : Outcome(step, chunk, chunk, 1, n, outs)
    /\ UNCHANGED <<peerClosed, sent, conf, sock, out>>

\* The recv of the loop returns: the append, and everything up to the return
\* or to the next recv.
GetResponseMore(lens, outs) ==
    /\ pc = "more"
    /\ \E n \in lens \cup {0} :
        /\ Recv(n)
        /\ \E chunk \in {Chunk(n)} :
            \E step \in {More(sockBytes, chunk, mLen)} :
                Outcome(step, chunk, sockBytes \o chunk, last.nreads + 1,
                        last.firstlen, outs)
    /\ UNCHANGED <<peerClosed, sent, conf, sock, out>>

PeerSend(m) ==
    /\ sock = "connected" /\ ~peerClosed
    /\ wire' = Append(wire, Bytes(m))
    /\ sent' = Append(sent, m)
    /\ UNCHANGED <<peerClosed, pc, conf, sock, out, exitStatus, framing>>

PeerClose ==
    /\ sock = "connected" /\ ~peerClosed
    /\ peerClosed' = TRUE
    /\ UNCHANGED <<wire, sent, pc, conf, sock, out, exitStatus, framing>>

\* The programs run when called.
Runs == {FALSE}
\* The programs run, or cannot be executed.
RunsOrFails == {FALSE, TRUE}

\* main up to its loop.
\* conf = readCommandLine(); conf.update(readConfig(...))
ReadCommandLine ==
    /\ pc = "start"
    /\ \E cmd \in CmdLines, file \in ConfFiles : conf' = Update(cmd, file)
    /\ pc' = "check"
    /\ UNCHANGED <<wire, peerClosed, sent, sock, out, exitStatus, framing>>

\* The test of server and port: exit(1), or on to the socket.
CheckConf ==
    /\ pc = "check"
    /\ IF Missing(conf)
       THEN pc' = "exited" /\ exitStatus' = 1
       ELSE pc' = "connect" /\ exitStatus' = exitStatus
    /\ UNCHANGED <<wire, peerClosed, sent, conf, sock, out, framing>>

\* socket.socket() and sock.connect((conf['server'], int(conf['port']))):
\* the connection is made, or int or connect raises and the exception leaves
\* main.
Connect ==
    /\ pc = "connect"
    /\ \E made \in BOOLEAN :
        IF made
        THEN sock' = "connected" /\ pc' = "init" /\ exitStatus' = exitStatus
        ELSE sock' = "created" /\ pc' = "crashed" /\ exitStatus' = 1
    /\ UNCHANGED <<wire, peerClosed, sent, conf, out, framing>>

SendInit ==
    /\ pc = "init"
    /\ out' = Append(out, Commands[1])
    /\ pc' = "sync"
    /\ UNCHANGED <<wire, peerClosed, sent, conf, sock, exitStatus, framing>>

SendSync ==
    /\ pc = "sync"
    /\ out' = Append(out, Commands[2])
    /\ pc' = "first"
    /\ UNCHANGED <<wire, peerClosed, sent, conf, sock, exitStatus, framing>>

\* The stream as TCP may deliver it: any chunking.
Next ==
    \/ \E m \in FramingMenu : Len(sent) < MaxSends /\ PeerSend(m)
    \/ PeerClose
    \/ GetResponseFirst(AnyLens, Runs)
    \/ GetResponseMore(AnyLens, Runs)

Spec == Init /\ [][Next]_vars

\* The same stream, the client never stopping while it can take a step.
NextFair ==
    \/ \E m \in FramingMenu : Len(sent) < MaxFairSends /\ PeerSend(m)
    \/ PeerClose
    \/ GetResponseFirst(AnyLens, Runs)
    \/ GetResponseMore(AnyLens, Runs)

FairSpec ==
    /\ Init /\ [][NextFair]_vars
    /\ WF_vars(GetResponseFirst(AnyLens, Runs))
    /\ WF_vars(GetResponseMore(AnyLens, Runs))

\* One frame of any records, delivered whole; after a frame that is not a
\* buffer line, one buffer line more.
NextRoute ==
    \/ \E m \in RouteMenu \cup OtherMenu : sent = <<>> /\ PeerSend(m)
    \/ (Len(sent) = 1 /\ NotBufferLine(sent[1]) /\ PeerSend(FrameA))
    \/ PeerClose
    \/ GetResponseFirst(WholeLens, Runs)

SpecRoute == Init /\ [][NextRoute]_vars

\* main from its start, with any configuration: small frames delivered whole,
\* to programs that run or cannot be executed.
NextMain ==
    \/ ReadCommandLine
    \/ CheckConf
    \/ Connect
    \/ SendInit
    \/ SendSync
    \/ \E m \in MainMenu : Len(sent) < MaxMainSends /\ PeerSend(m)
    \/ PeerClose
    \/ GetResponseFirst(WholeLens, RunsOrFails)

SpecMain == InitMain /\ [][NextMain]_vars

\* ---------------------------------------------------------------- claims
\* Everything sent has been received and no call is waiting for more.
Drained == wire = <<>> /\ pc \in {"first", "stopped"}

ExpectedAll == Concat([i \in 1..Len(sent) |-> Expected(sent[i])])

\* What the recv of a step of the client returned.
Received == Take(Concat(wire), Len(Concat(wire)) - Len(Concat(wire')))
ClientStep == sent' = sent /\ peerClosed' = peerClosed

\* The step decoded the identifier.
Decoded(l) == l.how \in {"ident", "other", "typ", "nothda", "hda", "record", "routed"}

\* C1: a valid uncompressed frame, split by recv in any way, dispatches the
\* events it dispatches when a single recv returns it whole.
C1_SplitLikeWhole ==
    (Len(sent) = 1 /\ WellFormed(sent[1]) /\ Drained) => events = Expected(sent[1])

\* C2: every complete well-formed frame is decoded and routed exactly once, in
\* arrival order, also when one recv returns the bytes of more than one frame
\* or the end of a frame with the start of the next (no recv here returns less
\* than what one send delivered).
C2_EveryFrameOnce ==
    (Drained /\ shortReads = 0 /\ \A i \in 1..Len(sent) : WellFormed(sent[i]))
        => events = ExpectedAll

\* C3: after a frame the peer stopped sending before its declared length, the
\* next well-formed frame is decoded and its events dispatched, whatever the
\* size of the partial data (every recv here returns what one send delivered,
\* up to the chunk size).
C3_NextFrameAfterAbandon ==
    (/\ Drained /\ shortReads = 0 /\ ~merged
     /\ Len(sent) = 2 /\ sent[1].cut > 0 /\ WellFormed(sent[2]))
        => events = Expected(sent[2])

\* C4: the identifier is decoded and events are dispatched only from a buffer
\* at least as long as the length declared in its first 4 bytes.
C4_DecodeOnlyComplete ==
    (Decoded(last) \/ last.routed # <<>>)
        => (last.buflen >= 5 /\ last.buflen >= Int32(last.head))

C4_Witness ==
    /\ last.how = "routed" /\ last.nreads = 2 /\ EventsOf(last.routed) # <<>>
    /\ last.buflen = Int32(last.head)

\* C5: a first read whose byte at offset 4 is nonzero ends the call at once:
\* no further read, nothing decoded, no event, and the loop reads on.
C5_CompressedDiscarded ==
    [][(pc = "first" /\ ClientStep /\ Len(Received) >= 5 /\ Received[5] # 0)
        => (/\ pc' = "first" /\ sockBytes' = <<>> /\ events' = events
            /\ last'.nreads = 1 /\ ~Decoded(last'))]_vars

C5_Witness ==
    /\ last.how = "compressed" /\ last.head[5] # 0 /\ pc = "first"
    /\ sent = <<FrameZ, FrameA>> /\ wire # <<>> /\ shortReads = 0

\* C6: a first read of fewer than 5 bytes, a nonzero compression flag, or a
\* chunk shorter than the chunk size while the buffer is shorter than the
\* declared length: the buffer is discarded, no event is dispatched and the
\* call returns the continue result.
C6_MalformedContinues ==
    [][(/\ ClientStep
        /\ \/ pc = "first" /\ Len(Received) \in 1..4
           \/ pc = "first" /\ Len(Received) >= 5 /\ Received[5] # 0
           \/ /\ pc \in {"first", "more"}
              /\ pc = "first" => Len(Received) >= 5
              /\ Len(sockBytes \o Received) >= 5
              /\ (sockBytes \o Received)[5] = 0
              /\ Len(sockBytes \o Received) < Int32(sockBytes \o Received)
              /\ Len(Received) < READ_AT_ONCE)
        => (pc' = "first" /\ sockBytes' = <<>> /\ events' = events)]_vars

C6_Witness ==
    /\ prev = <<"short", "compressed">>
    /\ last.how = "incomplete" /\ last.lastlen < READ_AT_ONCE /\ pc = "first"

\* C7: once the peer has closed the connection the read loop ends, wherever
\* the frame assembly is; and getResponse returns the stop result only when the
\* first recv of a call returns no byte.
Ended == pc \in {"stopped", "crashed"}

C7_ClosedEndsLoop ==
    /\ peerClosed ~> Ended
    /\ [][(pc' = "stopped" /\ pc # "stopped")
            => (pc = "first" /\ ClientStep /\ Received = <<>>)]_vars

C7_Witness ==
    /\ pc = "stopped" /\ peerClosed
    /\ last.how = "closed" /\ prev = <<"more", "incomplete">>

\* ------------------------------------------------------ claims on routing
\* The frame the peer sent has been routed record by record.
FrameRouted ==
    /\ Len(sent) = 1 /\ last.how = "routed"
    /\ Len(last.routed) = Len(sent[1].recs)

HasTag(r, t) == \E j \in 1..Len(r.tags_array) : r.tags_array[j] = t
NickTags(r) == {j \in 1..Len(r.tags_array) : StartsWith(r.tags_array[j], S_nick_)}

\* The nickname comes from a nick_ tag of the record, and is empty without one.
NickFrom(r, nick) ==
    IF NickTags(r) = {} THEN nick = <<>>
    ELSE \E j \in NickTags(r) : nick = Drop(r.tags_array[j], Len(S_nick_))

OneEvent(evs, kind, r) ==
    /\ Len(evs) = 1
    /\ evs[1].kind = kind
    /\ evs[1].msg = Text(r)
    /\ NickFrom(r, evs[1].nick)

\* C8: a record with highlight = 1 gives exactly one Highlight event with the
\* record's message and nickname and no PrivateMessage event, whatever its tags.
C8_HighlightOnce ==
    FrameRouted =>
        \A i \in 1..Len(sent[1].recs) :
            sent[1].recs[i].highlight = 1
                => OneEvent(last.routed[i].evs, "highlight", sent[1].recs[i])

C8_Witness ==
    /\ FrameRouted
    /\ \E i \in 1..Len(sent[1].recs) :
        /\ sent[1].recs[i].highlight = 1
        /\ HasTag(sent[1].recs[i], T_notify_private)
        /\ HasTag(sent[1].recs[i], T_nick_al)
        /\ last.routed[i].evs = <<Highlight(sent[1].recs[i].message, <<97, 108>>)>>

\* C9: a record with highlight = 0 and a notify_private tag gives exactly one
\* PrivateMessage event with the record's message and nickname, and no
\* Highlight event, also when notify_private occurs more than once.
C9_PrivateOnce ==
    FrameRouted =>
        \A i \in 1..Len(sent[1].recs) :
            (sent[1].recs[i].highlight = 0 /\ HasTag(sent[1].recs[i], T_notify_private))
                => OneEvent(last.routed[i].evs, "privmsg", sent[1].recs[i])

C9_Witness ==
    /\ FrameRouted
    /\ sent[1].recs = <<Rec(M_hi, <<T_notify_private, T_notify_private>>, 0)>>
    /\ events = <<PrivMsg(M_hi, <<>>)>>

\* C10: a record with highlight = 0 and no notify_private tag gives no event.
C10_NoEvent ==
    FrameRouted =>
        \A i \in 1..Len(sent[1].recs) :
            (sent[1].recs[i].highlight = 0 /\ ~HasTag(sent[1].recs[i], T_notify_private))
                => last.routed[i].evs = <<>>

C10_Witness ==
    /\ FrameRouted
    /\ sent[1].recs = <<Rec(M_hi, <<T_nick_al, T_notify_message>>, 0)>>
    /\ events = <<>>

\* C11: a complete frame whose identifier is not _buffer_line_added, or whose
\* type tag after that identifier is not hda, gives no event whatever its
\* payload, and getResponse returns the continue result: the frame after it
\* is processed.
C11_OtherIgnored ==
    /\ [][(/\ pc = "first" /\ ClientStep
            /\ \E k \in 1..Len(sent) :
                    NotBufferLine(sent[k]) /\ Received = Bytes(sent[k]))
            => (/\ pc' = "first" /\ events' = events
                /\ last'.ret = "continue" /\ last'.routed = <<>>)]_vars
    /\ []((Len(sent) = 2 /\ NotBufferLine(sent[1]) /\ Drained)
            => events = Expected(sent[2]))

C11_Witness ==
    /\ sent = <<MsgAs(S_buffer_line_added, S_inf, <<Rec(M_hi, <<T_nick_al>>, 1)>>), FrameA>>
    /\ prev = <<"nothda">> /\ last.how = "routed"
    /\ events = <<Highlight(M_hi, <<97, 108>>)>>

\* C12: the nickname of a record's event is what follows nick_ in the FIRST
\* tags_array entry that starts with nick_, and is empty when no entry does.
FirstNick(r) ==
    IF NickTags(r) = {} THEN <<>>
    ELSE Drop(r.tags_array[CHOOSE j \in NickTags(r) : \A k \in NickTags(r) : j <= k],
              Len(S_nick_))

C12_FirstNickWins ==
    FrameRouted =>
        \A i \in 1..Len(sent[1].recs) :
            \A e \in 1..Len(last.routed[i].evs) :
                last.routed[i].evs[e].nick = FirstNick(sent[1].recs[i])

\* ------------------------------------------- claims on startup and dispatch
\* A key of the configuration has a value that is not empty.
Present(c, k) == k \in DOMAIN c /\ c[k] # None /\ c[k] # <<>>

\* A step of the client reads from the socket.
Reads == ClientStep /\ (wire' # wire \/ last' # last)

\* C13: the client sends 'init compression=off\n' once and then 'sync *\n'
\* once, in that order, after the connection is established and before its
\* first read, and nothing else afterwards.
C13_StartupCommands ==
    /\ [](out \in {<<>>, <<C_init>>, <<C_init, C_sync>>})
    /\ []((last # NoCall \/ pc \in {"first", "more", "stopped"})
            => out = <<C_init, C_sync>>)
    /\ [][out' # out => (sock = "connected" /\ last = NoCall /\ ~Reads)]_vars
    /\ [][Reads => (out = <<C_init, C_sync>> /\ out' = out)]_vars

C13_Witness ==
    /\ out = <<C_init, C_sync>> /\ sock = "connected"
    /\ Len(sent) = 2 /\ Drained /\ last.how = "routed" /\ prev = <<"routed">>

\* C14: with the server address or the port absent or empty in the merged
\* configuration the program halts with exit status 1 before it opens the
\* socket, sends a command or reads a frame; with both present it does not.
C14_MissingExits ==
    /\ [][pc = "check" =>
            IF ~Present(conf, "server") \/ ~Present(conf, "port")
            THEN pc' = "exited" /\ exitStatus' = 1
            ELSE pc' # "exited"]_vars
    /\ [](pc = "exited" =>
            /\ ~Present(conf, "server") \/ ~Present(conf, "port")
            /\ exitStatus = 1 /\ sock = "none" /\ out = <<>>
            /\ last = NoCall /\ sent = <<>>)
    /\ [][pc # "exited"]_vars

C14_Witness ==
    /\ pc = "exited" /\ exitStatus = 1 /\ sock = "none"
    /\ conf["server"] = V_host /\ conf["port"] = <<>>

\* The key of conf that names the program of an event kind.
ActionKey(kind) == IF kind = "highlight" THEN "highlight-action" ELSE "privmsg-action"

\* The events for which a program is configured.
RECURSIVE WithProgram(_, _)
WithProgram(evs, c) ==
    IF evs = <<>> THEN <<>>
    ELSE (IF Present(c, ActionKey(Head(evs).kind)) THEN <<Head(evs)>> ELSE <<>>)
            \o WithProgram(Tail(evs), c)

\* A call of getResponse receives the whole frame m.
Gets(m) == pc = "first" /\ ClientStep /\ Received = Bytes(m)

\* C15: an event of a kind with no program configured (key absent, None or
\* empty) invokes no program and raises no error: every record of the frame
\* is still routed, only the events with a program reach one, and getResponse
\* returns the continue result.
C15_NoProgramDropped ==
    [][\A k \in 1..Len(sent) : Gets(sent[k]) =>
        /\ pc' = "first" /\ last'.ret = "continue"
        /\ Len(last'.routed) = Len(sent[k].recs)
        /\ events' = events \o EventsOf(last'.routed)
        /\ effects' = effects \o last'.effects
        /\ Len(last'.effects) = Len(WithProgram(EventsOf(last'.routed), conf))
        /\ \A i \in 1..Len(last'.effects) :
            /\ last'.effects[i].kind \in {"ran", "could not execute"}
            /\ Len(last'.effects[i].argv) = 3
            /\ last'.effects[i].argv[2] = WithProgram(EventsOf(last'.routed), conf)[i].msg
            /\ last'.effects[i].argv[3] = WithProgram(EventsOf(last'.routed), conf)[i].nick]_vars

C15_Witness ==
    /\ sent = <<FrameHP>> /\ last.how = "routed" /\ pc = "first"
    /\ conf["highlight-action"] = None /\ conf["privmsg-action"] = V_privmsg_action
    /\ events = <<Highlight(M_hi, <<97, 108>>), PrivMsg(M_yo, <<98, 111>>)>>
    /\ effects = <<Effect("ran", <<V_privmsg_action, M_yo, <<98, 111>>>>)>>

\* C16: a record whose highlight is any nonzero value, negative ones
\* included, gives a Highlight event, and its notify_ tags are not examined.
C16_NonzeroHighlights ==
    FrameRouted =>
        \A i \in 1..Len(sent[1].recs) :
            sent[1].recs[i].highlight # 0
                => OneEvent(last.routed[i].evs, "highlight", sent[1].recs[i])

\* C17: with highlight = 0 the first tags_array entry that starts with
\* notify_ decides: when what follows the prefix is not 'private' the record
\* gives no event, also when a later entry is notify_private.
NotifyTags(r) == {j \in 1..Len(r.tags_array) : StartsWith(r.tags_array[j], S_notify_)}

FirstNotify(r) ==
    r.tags_array[CHOOSE j \in NotifyTags(r) : \A k \in NotifyTags(r) : j <= k]

C17_FirstNotifyDecides ==
    FrameRouted =>
        \A i \in 1..Len(sent[1].recs) :
            (/\ sent[1].recs[i].highlight = 0
             /\ NotifyTags(sent[1].recs[i]) # {}
             /\ FirstNotify(sent[1].recs[i]) # T_notify_private)
                => last.routed[i].evs = <<>>

\* C18: a frame of several records gives at most one event per record, in
\* the order of the records, and the event of a record is the one the record
\* gives when it is alone in a frame.
C18_PerRecord ==
    FrameRouted =>
        /\ \A i \in 1..Len(sent[1].recs) :
            /\ Len(last.routed[i].evs) <= 1
            /\ last.routed[i].evs = Expected(Msg(0, S_buffer_line_added, <<sent[1].recs[i]>>))
        /\ events = Concat([i \in 1..Len(sent[1].recs) |->
                        Expected(Msg(0, S_buffer_line_added, <<sent[1].recs[i]>>))])

C18_Witness ==
    /\ FrameRouted
    /\ sent[1].recs = <<Rec(M_hi, <<T_nick_al>>, 1), Rec(M_yo, <<T_notify_private>>, 0)>>
    /\ events = <<Highlight(M_hi, <<97, 108>>), PrivMsg(M_yo, <<>>)>>

\* What the events leave when the call of event j fails where fails[j].
ExpectedEffects(evs, c, fails) ==
    Concat([j \in 1..Len(evs) |->
        IF Present(c, ActionKey(evs[j].kind))
        THEN <<Effect(IF fails[j] THEN "could not execute" ELSE "ran",
                      <<expandPaths(c[ActionKey(evs[j].kind)]), evs[j].msg, evs[j].nick>>)>>
        ELSE <<>>])

\* C19: a handler program that cannot be executed never ends the read loop and
\* never keeps the later records of the frame from being routed: the failure
\* is logged, the later records give their events and reach their programs,
\* and getResponse returns the continue result.
C19_ExecFailureContinues ==
    [][\A k \in 1..Len(sent) : Gets(sent[k]) =>
        /\ pc' = "first" /\ last'.ret = "continue" /\ exitStatus' = -1
        /\ events' = events \o Expected(sent[k])
        /\ last'.effects = ExpectedEffects(Expected(sent[k]), conf, last'.fails)]_vars

C19_Witness ==
    /\ sent = <<FrameHP, FrameA>> /\ Drained /\ pc = "first"
    /\ effects = <<Effect("could not execute", <<Home \o <<47, 104>>, M_hi, <<97, 108>>>>),
                   Effect("ran", <<V_privmsg_action, M_yo, <<98, 111>>>>),
                   Effect("ran", <<Home \o <<47, 104>>, M_hi, <<97, 108>>>>)>>

====
